---- MODULE Spec2Model ----
(***************************************************************************)
(* Model of bun-s3-compats: the AlfrescoClient / AlfrescoFile adapter and  *)
(* the GitlabClient / GitlabFile adapter.  One client adapter, the file    *)
(* handles it mints, the operations in flight on them (each suspended at   *)
(* its network request), and the remote store the requests reach.          *)
(*                                                                         *)
(* JavaScript values: undefined is UNDEF, booleans held in option objects  *)
(* are the strings "true"/"false", a promise's value is a tagged tuple     *)
(* <<"stat", m>>, <<"bool", b>>, <<"num", n>>, <<"undefined">>,            *)
(* <<"url", u>>, <<"text", s>>, <<"void">> or <<"err", why>>.               *)
(***************************************************************************)
EXTENDS Integers, Sequences, FiniteSets, TLC

\* ---------------------------------------------------------------- bounds
MaxOps == 2
MaxHandles == 2
MaxChanges == 1

\* ------------------------------------------------------------- JS values
UNDEF == "undefined"
NaN == -1
EmptyObj == [x \in {} |-> x]

Paths == {"a", "b"}
Overrides == {UNDEF, "inline"}

\* A per-call or per-file options argument: absent, or {bucket, inline}.
OptionsArg(o) ==
    IF o = "inline" THEN [bucket |-> "b", inline |-> "true"] ELSE EmptyObj

\* Payloads of write: a string, Blobs, an ArrayBuffer and a Uint8Array.
\* bytes are the payload's bytes, written as characters.
Payloads ==
    { [kind |-> "string", bytes |-> <<"H", "i">>],
      [kind |-> "Blob", bytes |-> <<>>],
      [kind |-> "ArrayBuffer", bytes |-> <<"H", "i">>],
      [kind |-> "Uint8Array", bytes |-> <<"H">>] }

\* The byte size of a payload.
ByteSize(data) == Len(data.bytes)

\* data.size: defined on a Blob only.
SizeProp(data) == IF data.kind = "Blob" THEN <<"num", Len(data.bytes)>> ELSE <<"undefined">>

\* data.length: defined on a string and on a typed array.
LengthProp(data) ==
    IF data.kind \in {"string", "Uint8Array"}
    THEN <<"num", Len(data.bytes)>> ELSE <<"undefined">>

\* JavaScript truthiness of a tagged value.
Truthy(v) ==
    CASE v[1] = "undefined" -> FALSE
      [] v[1] = "num" -> v[2] # 0 /\ v[2] # NaN
      [] v[1] = "str" -> v[2] # ""
      [] v[1] = "numstr" -> TRUE
      [] v[1] = "bool" -> v[2]
      [] OTHER -> TRUE

\* a || b
JsOr(a, b) == IF Truthy(a) THEN a ELSE b

\* Object.assign(target, source): source's own properties overwrite target's.
ObjectAssign(target, source) ==
    [f \in DOMAIN target \cup DOMAIN source |->
        IF f \in DOMAIN source THEN source[f] ELSE target[f]]

\* obj.f, undefined when the property is absent.
Prop(obj, f) == IF f \in DOMAIN obj THEN obj[f] ELSE UNDEF

\* btoa(s) on the identifiers the authentication endpoint can answer with.
btoa(s) ==
    CASE s = "" -> ""
      [] s = "T1" -> "VDE="
      [] s = "undefined" -> "dW5kZWZpbmVk"

\* ------------------------------------------------------------------ state
VARIABLES
    backend,    \* which adapter the client is: "alfresco" or "gitlab"
    base,       \* the client's #opts, the shared base configuration
    ticket,     \* the id property of the client's shared #ticket object
    handles,    \* the file handles minted so far
    fopts,      \* the option objects the handles hold (shared by slices)
    ops,        \* the operations called so far, in call order
    store,      \* the remote objects of collection "b", by path
    links,      \* the node ids that have a shared link
    changes     \* how often a third party has changed a remote object

vars == <<backend, base, ticket, handles, fopts, ops, store, links, changes>>

Absent == [id |-> "none", type |-> <<"undefined">>, content |-> <<>>, rev |-> 0]

\* The id the repository gives the node at a path, and a node's shared link.
NodeIdOf(p) == CASE p = "a" -> "id-a" [] p = "b" -> "id-b" [] OTHER -> "id-x"
LinkIdOf(id) == IF id = "id-a" THEN "L-a" ELSE "L-b"
NodeIds == {NodeIdOf(p) : p \in Paths}

\* What a third party may replace an object's content with.
OtherContent == <<"X", "Y", "Z">>

NoData == [kind |-> "none", bytes |-> <<>>]

Done(o) == o.pc \in {"resolved", "rejected", "threw"}
DoneOps == {i \in 1..Len(ops) : Done(ops[i])}

\* --------------------------------------------------- the remote backends
\* The object a lookup url <<collection, path>> names: collection "b" only.
StoreKeys == Paths \cup {"[object Blob]"}
Exists(key) == key \in StoreKeys /\ store[key] # Absent
Found(url) == url[1] = "b" /\ Exists(url[2])

\* GET /nodes/-my-?relativePath=<bucket>/<path>: the node entry, or an error.
AlfrescoLookupReply(url) ==
    IF Found(url)
    THEN LET n == store[url[2]] IN
         [entry |-> [id |-> n.id, nodeType |-> n.type,
                     content |-> [length |-> Len(n.content), modifiedAt |-> n.rev,
                                  sizeInBytes |-> Len(n.content), mimeType |-> "text/plain"],
                     modifiedAt |-> n.rev]]
    ELSE [error |-> [statusCode |-> 404, briefSummary |-> "not found"]]

\* HEAD .../repository/files/<path>: the response headers, as (prefix, rest).
GitlabHeadReply(url) ==
    IF Exists(url[1])
    THEN LET n == store[url[1]] IN
         { [prefix |-> "x-gitlab", rest |-> "size", value |-> <<"numstr", Len(n.content)>>],
           [prefix |-> "x-gitlab", rest |-> "name", value |-> <<"str", url[1]>>],
           [prefix |-> "content-", rest |-> "type", value |-> <<"str", "text/plain">>] }
         \cup (IF n.type = <<"undefined">> THEN {}
               ELSE {[prefix |-> "x-gitlab", rest |-> "type", value |-> n.type]})
    ELSE { [prefix |-> "content-", rest |-> "type", value |-> <<"str", "application/json">>] }

\* ------------------------------------------------------- pure functions
\* obj.f of a metadata object, as a tagged value.
PropT(obj, f) == IF f \in DOMAIN obj THEN obj[f] ELSE <<"undefined">>

\* Number(v): the number a numeric string holds, NaN for undefined.
Number(v) == IF v[1] = "numstr" THEN v[2] ELSE NaN

\* AlfrescoClient.stat's normalisation of the lookup reply.
AlfrescoStat(data) ==
    IF "error" \in DOMAIN data
    THEN <<"err", data.error.briefSummary>>
    ELSE LET e == data.entry IN
         <<"stat", [id |-> e.id, type |-> e.nodeType,
                    size |-> <<"num", e.content.length>>,
                    lastModified |-> <<"Date", e.content.modifiedAt>>]>>

\* GitlabClient.stat: the x-gitlab headers with the prefix cut, size a Number.
GitlabStat(headers) ==
    LET own == {h \in headers : h.prefix = "x-gitlab"}
        data == [k \in {h.rest : h \in own} |-> (CHOOSE h \in own : h.rest = k).value]
    IN <<"stat", ObjectAssign(data, [size |-> <<"num", Number(PropT(data, "size"))>>])>>

RECURSIVE AssignAll(_, _)
AssignAll(target, args) ==
    IF args = <<>> THEN target
    ELSE AssignAll(ObjectAssign(target, Head(args)), Tail(args))

\* Object.assign(this.#opts, ...args): the merge done on the base itself.
cloneOptionsInPlace(b, args) ==
    LET m == AssignAll(b, args) IN [opts |-> m, base |-> m]

\* #cloneOptions(...args): a fresh object holding the base configuration with
\* every argument merged over it; base is the client's #opts after the call.
cloneOptions(b, args) ==
    [opts |-> AssignAll(ObjectAssign(EmptyObj, b), args), base |-> b]

\* buildPath(file_path, opts, dirname): path.join throws on a bucket or a
\* file_path that is no string.  Paths are flat: their dirname is ".".
buildPath(file_path, opts, dirname) ==
    IF Prop(opts, "bucket") = UNDEF \/ file_path[1] # "str"
    THEN <<"throw">>
    ELSE <<"ok", <<opts.bucket, IF dirname THEN "." ELSE file_path[2]>>>>

\* encodeURIComponent(path): of a flat path itself, of a file object its
\* string conversion.
encodeURIComponent(file_path) ==
    IF file_path[1] = "str" THEN file_path[2] ELSE "[object Blob]"

\* path.basename(file_path)
basename(file_path) == file_path[2]

\* createTicket(opts) called whatever the slot holds.
getTicketAlways(t) == <<"createTicket">>

\* getTicket(ticket, opts): the cached id, or a call of createTicket.
getTicket(t) == IF Truthy(t) THEN <<"cached", t[2]>> ELSE <<"createTicket">>

\* match(...)[0] taken for the group: the brackets stay on the id.
BracketMatchWhole(key) ==
    LET opens == {i \in 1..Len(key) : key[i] = "["}
        closes == {j \in 1..Len(key) : key[j] = "]"}
    IN  IF opens = {} \/ closes = {} THEN <<"null">>
        ELSE <<"match", SubSeq(key, CHOOSE x \in opens : \A y \in opens : x <= y,
                                    CHOOSE x \in closes : \A y \in closes : y <= x)>>

\* The regular expression /\[(.+)\]/ on an error key: the first "[" that a
\* later "]" closes with something between them, up to the last "]".
BracketMatch(key) ==
    LET opens == {i \in 1..Len(key) :
                    key[i] = "[" /\ \E j \in (i + 2)..Len(key) : key[j] = "]"}
    IN  IF opens = {} THEN <<"null">>
        ELSE LET i == CHOOSE x \in opens : \A y \in opens : x <= y
                 j == CHOOSE x \in (i + 2)..Len(key) :
                        key[x] = "]" /\ \A y \in (i + 2)..Len(key) : key[y] = "]" => y <= x
             IN <<"match", SubSeq(key, i + 1, j - 1)>>

\* What FormData.append('content', data) sends: a string or a Blob as it is,
\* anything else converted to a string.
CharCode(c) == IF c = "H" THEN <<"7", "2">> ELSE <<"1", "0", "5">>

RECURSIVE JoinCodes(_)
JoinCodes(bytes) ==
    IF bytes = <<>> THEN <<>>
    ELSE IF Len(bytes) = 1 THEN CharCode(bytes[1])
    ELSE CharCode(bytes[1]) \o <<",">> \o JoinCodes(Tail(bytes))

FormValue(data) ==
    CASE data.kind \in {"string", "Blob"} -> data.bytes
      [] data.kind = "ArrayBuffer" -> <<"[object ArrayBuffer]">>
      [] OTHER -> JoinCodes(data.bytes)

\* new Blob([data]): the payload's bytes.
BlobOf(data) == data.bytes

\* ------------------------------------------------------------ operations
SliceArgs == {<<"0", "1", UNDEF>>}
AuthIds == {"T1"}

Init ==
    /\ backend \in {"alfresco", "gitlab"}
    /\ base \in {[endpoint |-> "e", bucket |-> "b"], [endpoint |-> "e"]}
    /\ ticket = <<"undefined">>
    /\ handles = <<>>
    /\ fopts = <<>>
    /\ ops = <<>>
    /\ \E t \in {<<"str", "cm:content">>, <<"undefined">>} :
         store = [k \in StoreKeys |->
                    IF k = "a"
                    THEN [id |-> NodeIdOf(k), type |-> t, content |-> <<"H", "i">>, rev |-> 1]
                    ELSE Absent]
    /\ links = {}
    /\ changes = 0

\* An operation as it is called: nothing sent yet.  after: the operations
\* settled before the call; had: whether the path named an object then;
\* cached: whether the handle held metadata then; tix: the ticket each
\* backend request carried; src: the chunks of the response body; closes:
\* how often the stream was closed.
NewOp(kind, h, file_path, opts, data) ==
    [kind |-> kind, h |-> h, path |-> file_path, opts |-> opts, data |-> data,
     pc |-> "new", next |-> "none", url |-> <<>>, res |-> <<"undefined">>,
     reqs |-> <<>>, st |-> <<"undefined">>, after |-> DoneOps,
     body |-> <<>>, got |-> <<>>, status |-> 0,
     had |-> file_path[1] = "str" /\ Exists(file_path[2]),
     cached |-> h # 0 /\ Truthy(handles[h].stat),
     tix |-> <<>>, src |-> <<>>, closes |-> 0]

Resolve(o, v) == [o EXCEPT !.pc = "resolved", !.res = v]

\* A rejection reaching the operation's promise: exists catches it.
Reject(o, why) ==
    IF o.kind = "exists"
    THEN Resolve(o, <<"bool", FALSE>>)
    ELSE [o EXCEPT !.pc = "rejected", !.res = <<"err", why>>]

\* An exception raised in the synchronous part of a call: the async stat of
\* a handle, and the promise chain of a read, turn it into a rejection.
Throw(o, why) ==
    IF o.kind \in {"fstat", "fexists", "read"}
    THEN [o EXCEPT !.pc = "rejected", !.res = <<"err", why>>]
    ELSE [o EXCEPT !.pc = "threw", !.res = <<"err", why>>]

\* request(url, ticket, opts, ...) of the Alfresco adapter: the fetch goes out
\* with the cached ticket, or waits for createTicket's POST.
AlfrescoRequest(o, kind, url) ==
    IF getTicket(ticket)[1] = "cached"
    THEN [o EXCEPT !.pc = kind, !.url = url, !.reqs = Append(@, kind),
                   !.tix = Append(@, getTicket(ticket)[2])]
    ELSE [o EXCEPT !.pc = "auth", !.next = kind, !.url = url, !.reqs = Append(@, "auth")]

\* request(uri, opts, ...) of the Gitlab adapter: the fetch goes out.
GitlabRequest(o, kind, url) ==
    [o EXCEPT !.pc = kind, !.url = url, !.reqs = Append(@, kind)]

\* The part of client.stat(path, options) that runs before its request is out.
StatSend(o, options) ==
    IF backend = "alfresco"
    THEN LET bp == buildPath(o.path, options, FALSE) IN
         IF bp[1] = "throw" THEN Throw(o, "TypeError")
         ELSE AlfrescoRequest(o, "lookup", bp[2])
    ELSE GitlabRequest(o, "lookup", <<encodeURIComponent(o.path)>>)

\* client.file(path, options)
File(p, ov) ==
    /\ Len(handles) < MaxHandles
    /\ LET c == cloneOptions(base, <<OptionsArg(ov)>>) IN
         /\ base' = c.base
         /\ fopts' = Append(fopts, c.opts)
         /\ handles' = Append(handles,
                [path |-> <<"str", p>>, opt |-> Len(fopts) + 1,
                 stat |-> <<"undefined">>, id |-> UNDEF, name |-> <<"undefined">>])
    /\ UNCHANGED <<backend, ticket, ops, store, links, changes>>

\* file.slice(start, end, contentType): the range goes into the handle's own
\* option object, and the new handle wraps the handle and shares that object.
Slice(h, a) ==
    /\ Len(handles) < MaxHandles
    /\ fopts' = [fopts EXCEPT ![handles[h].opt] =
                    ObjectAssign(@, [sliceStart |-> a[1], sliceEnd |-> a[2],
                                     sliceContentType |-> a[3]])]
    /\ handles' = Append(handles,
            [path |-> <<"file", h>>, opt |-> handles[h].opt,
             stat |-> <<"undefined">>, id |-> UNDEF, name |-> <<"undefined">>])
    /\ UNCHANGED <<backend, base, ticket, ops, store, links, changes>>

\* client.stat / exists / size (path, options): all begin with this.stat.
CallStat(kind, p, ov) ==
    /\ Len(ops) < MaxOps
    /\ LET c == cloneOptions(base, <<OptionsArg(ov)>>)
           o == NewOp(kind, 0, <<"str", p>>, c.opts, NoData)
       IN /\ base' = c.base
          /\ ops' = Append(ops, StatSend(o, c.opts))
    /\ UNCHANGED <<backend, ticket, handles, fopts, store, links, changes>>

ClientStat(p, ov) == CallStat("stat", p, ov)
ClientExists(p, ov) == CallStat("exists", p, ov)
ClientSize(p, ov) == CallStat("size", p, ov)

\* client.presign(file_path, options) with the argument already built.
\* Alfresco: stat first.  Gitlab: the url is composed at once, no request.
PresignCall(o0, arg) ==
    LET c == cloneOptions(base, <<arg>>)
        o == [o0 EXCEPT !.opts = c.opts]
    IN  IF backend = "alfresco"
        THEN LET c2 == cloneOptions(c.base, <<c.opts>>) IN
             [op |-> StatSend(o, c2.opts), base |-> c2.base]
        ELSE [op |-> IF Prop(c.opts, "bucket") = UNDEF \/ o.path[1] # "str"
                     THEN Throw(o, "TypeError")
                     ELSE Resolve(o, <<"url", [endpoint |-> c.opts.endpoint,
                                               bucket |-> c.opts.bucket,
                                               name |-> o.path[2],
                                               inline |-> Prop(c.opts, "inline") = "true"]>>),
              base |-> c.base]

ClientPresign(p, ov) ==
    /\ Len(ops) < MaxOps
    /\ LET r == PresignCall(NewOp("presign", 0, <<"str", p>>, EmptyObj, NoData), OptionsArg(ov))
       IN base' = r.base /\ ops' = Append(ops, r.op)
    /\ UNCHANGED <<backend, ticket, handles, fopts, store, links, changes>>

\* client.write(file_path, data, options)
WriteCall(o0, arg) ==
    LET c == cloneOptions(base, <<arg>>)
        o == [o0 EXCEPT !.opts = c.opts]
    IN  IF backend = "alfresco"
        THEN LET bp == buildPath(o.path, c.opts, TRUE) IN
             [op |-> IF bp[1] = "throw" THEN Throw(o, "TypeError")
                     ELSE AlfrescoRequest(o, "write", <<bp[2][1], basename(o.path)>>),
              base |-> c.base]
        ELSE [op |-> GitlabRequest(o, "write", <<encodeURIComponent(o.path)>>),
              base |-> c.base]

ClientWrite(p, data, ov) ==
    /\ Len(ops) < MaxOps
    /\ LET r == WriteCall(NewOp("write", 0, <<"str", p>>, EmptyObj, data), OptionsArg(ov))
       IN base' = r.base /\ ops' = Append(ops, r.op)
    /\ UNCHANGED <<backend, ticket, handles, fopts, store, links, changes>>

\* client.delete(path, options).  Alfresco: DELETE /nodes/<path>.  Gitlab: the
\* url names NODE_ID, which nothing binds: a ReferenceError before anything else.
DeleteCall(o0, name, arg) ==
    IF backend = "alfresco"
    THEN LET c == cloneOptions(base, <<arg>>) IN
         [op |-> AlfrescoRequest([o0 EXCEPT !.opts = c.opts], "delete", <<name>>),
          base |-> c.base]
    ELSE [op |-> Throw(o0, "ReferenceError"), base |-> base]

ClientDelete(name, ov) ==
    /\ Len(ops) < MaxOps
    /\ LET r == DeleteCall(NewOp("delete", 0, <<"str", name>>, EmptyObj, NoData),
                           name, OptionsArg(ov))
       IN base' = r.base /\ ops' = Append(ops, r.op)
    /\ UNCHANGED <<backend, ticket, handles, fopts, store, links, changes>>

\* this.#options of handle h
OptionsOf(h) == fopts[handles[h].opt]

\* file.exists(): Boolean of the metadata (Alfresco), of its type (Gitlab).
ExistsOf(st) ==
    IF backend = "alfresco" THEN Truthy(st) ELSE Truthy(PropT(st[2], "type"))

\* file.stat() / file.exists(): the cached metadata, or client.stat with the
\* handle's path and options.
CallFileStat(kind, h) ==
    /\ Len(ops) < MaxOps
    /\ LET o == NewOp(kind, h, handles[h].path, OptionsOf(h), NoData) IN
         IF Truthy(handles[h].stat)
         THEN /\ ops' = Append(ops, Resolve(o, IF kind = "fstat" THEN handles[h].stat
                                               ELSE <<"bool", ExistsOf(handles[h].stat)>>))
              /\ base' = base
         ELSE LET c == cloneOptions(base, <<OptionsOf(h)>>) IN
              /\ ops' = Append(ops, StatSend(o, c.opts))
              /\ base' = c.base
    /\ UNCHANGED <<backend, ticket, handles, fopts, store, links, changes>>

FileStat(h) == CallFileStat("fstat", h)
FileExists(h) == CallFileStat("fexists", h)

\* file.presign(options): client.presign(path, {...this.#options, ...options})
FilePresign(h, ov) ==
    /\ Len(ops) < MaxOps
    /\ LET arg == ObjectAssign(ObjectAssign(EmptyObj, OptionsOf(h)), OptionsArg(ov))
           r == PresignCall(NewOp("fpresign", h, handles[h].path, EmptyObj, NoData), arg)
       IN base' = r.base /\ ops' = Append(ops, r.op)
    /\ UNCHANGED <<backend, ticket, handles, fopts, store, links, changes>>

\* file.write(data, options).  Alfresco: the method body is empty, the call
\* returns undefined.  Gitlab: client.write(this.path, data, options).
FileWrite(h, data, ov) ==
    /\ Len(ops) < MaxOps
    /\ LET o == NewOp("fwrite", h, handles[h].path, EmptyObj, data) IN
         IF backend = "alfresco"
         THEN base' = base /\ ops' = Append(ops, Resolve(o, <<"undefined">>))
         ELSE LET r == WriteCall(o, OptionsArg(ov)) IN
              base' = r.base /\ ops' = Append(ops, r.op)
    /\ UNCHANGED <<backend, ticket, handles, fopts, store, links, changes>>

\* file.delete() / file.unlink(): client.delete(this.name, this.#options).
\* An Alfresco handle never sets name; a Gitlab handle's is its metadata's.
FileDelete(h) ==
    /\ Len(ops) < MaxOps
    /\ LET r == DeleteCall(NewOp("fdelete", h, handles[h].path, EmptyObj, NoData),
                           IF handles[h].name[1] = "str" THEN handles[h].name[2] ELSE UNDEF,
                           OptionsOf(h))
       IN base' = r.base /\ ops' = Append(ops, r.op)
    /\ UNCHANGED <<backend, ticket, handles, fopts, store, links, changes>>

\* A read that looks the object up again though the handle holds metadata.
FileReadNoCache(h) ==
    /\ Len(ops) < MaxOps
    /\ LET o == NewOp("read", h, handles[h].path, OptionsOf(h), NoData) IN
         IF backend = "gitlab"
         THEN /\ ops' = Append(ops, GitlabRequest(o, "content", <<encodeURIComponent(o.path)>>))
              /\ base' = base
         ELSE LET c == cloneOptions(base, <<OptionsOf(h)>>) IN
              /\ ops' = Append(ops, StatSend(o, c.opts))
              /\ base' = c.base
    /\ UNCHANGED <<backend, ticket, handles, fopts, store, links, changes>>

\* A read (text, json, bytes, blob, formData, arrayBuffer, stream): the start
\* of the handle's readable.  Alfresco: file.name || file.stat(), then the
\* content request with the handle's #id.  Gitlab: the raw request at once.
FileRead(h) ==
    /\ Len(ops) < MaxOps
    /\ LET o == NewOp("read", h, handles[h].path, OptionsOf(h), NoData) IN
         IF backend = "gitlab"
         THEN /\ ops' = Append(ops, GitlabRequest(o, "content", <<encodeURIComponent(o.path)>>))
              /\ base' = base
         ELSE IF Truthy(handles[h].stat)
         THEN /\ ops' = Append(ops, AlfrescoRequest(o, "content", <<handles[h].id>>))
              /\ base' = base
         ELSE LET c == cloneOptions(base, <<OptionsOf(h)>>) IN
              /\ ops' = Append(ops, StatSend(o, c.opts))
              /\ base' = c.base
    /\ UNCHANGED <<backend, ticket, handles, fopts, store, links, changes>>

\* ------------------------------------------------------------- responses
InFlight == {"auth", "lookup", "link", "write", "delete", "content"}

\* createTicket reading the id through data.entry?.id: a reply without an
\* entry gives btoa(undefined).
createTicketLenient(data) ==
    IF "entry" \in DOMAIN data THEN <<"ok", btoa(data.entry.id)>>
    ELSE <<"ok", btoa(UNDEF)>>

\* createTicket's continuation on the authentication reply.
createTicket(data) ==
    IF "entry" \in DOMAIN data THEN <<"ok", btoa(data.entry.id)>> ELSE <<"throw">>

AuthReplies ==
    {[entry |-> [id |-> id]] : id \in AuthIds} \cup {[error |-> [statusCode |-> 403]]}

\* The authentication POST is answered: the id goes into the shared slot and
\* the waiting request is sent with it; a reply without an entry rejects.
AuthResponse(i, data) ==
    /\ ops[i].pc = "auth"
    /\ LET o == ops[i]
           t == createTicket(data)
       IN IF t[1] = "ok"
          THEN /\ ticket' = <<"str", t[2]>>
               /\ ops' = [ops EXCEPT ![i] = [o EXCEPT !.pc = o.next, !.next = "none",
                                                       !.reqs = Append(@, o.next),
                                                       !.tix = Append(@, t[2])]]
          ELSE /\ ticket' = ticket
               /\ ops' = [ops EXCEPT ![i] = Reject(o, "TypeError")]
    /\ UNCHANGED <<backend, base, handles, fopts, store, links, changes>>

\* fetch rejects: the request in flight fails in transport.
TransportFailure(i) ==
    /\ ops[i].pc \in InFlight
    /\ ops' = [ops EXCEPT ![i] = Reject(ops[i], "fetch failed")]
    /\ UNCHANGED <<backend, base, ticket, handles, fopts, store, links, changes>>

\* The metadata cached without the identifier: this.#id is left unset.
CacheNoId(hd, st) ==
    [hd EXCEPT !.stat = st,
               !.name = IF backend = "gitlab" THEN PropT(st[2], "name") ELSE @]

\* The metadata a handle caches from a resolved client.stat.
Cache(hd, st) ==
    [hd EXCEPT !.stat = st,
               !.id = IF backend = "alfresco" THEN st[2].id ELSE @,
               !.name = IF backend = "gitlab" THEN PropT(st[2], "name") ELSE @]

\* presign composing its URL from the node id, with no shared link made.
AfterStatNoLink(o, st) ==
    Resolve(o, <<"url", [endpoint |-> o.opts.endpoint, link |-> <<st[2].id>>,
                         name |-> o.path[2], inline |-> FALSE]>>)

\* What an operation does with the metadata its stat resolved to.
AfterStat(o, st) ==
    CASE o.kind \in {"stat", "fstat"} -> Resolve(o, st)
      [] o.kind = "exists" -> Resolve(o, <<"bool", Truthy(PropT(st[2], "type"))>>)
      [] o.kind = "size" -> Resolve(o, PropT(st[2], "size"))
      [] o.kind = "fexists" -> Resolve(o, <<"bool", ExistsOf(st)>>)
      [] o.kind \in {"presign", "fpresign"} ->
            AlfrescoRequest(o, "link", <<st[2].id>>)
      [] o.kind = "read" ->
            AlfrescoRequest(o, "content", <<st[2].id>>)

\* The lookup answered, the handle keeping whatever came back: a failure is
\* cached like metadata.
LookupResponseKeepFailure(i) ==
    /\ ops[i].pc = "lookup"
    /\ LET o == ops[i]
           st == IF backend = "alfresco"
                 THEN AlfrescoStat(AlfrescoLookupReply(o.url))
                 ELSE GitlabStat(GitlabHeadReply(o.url))
       IN /\ ops' = [ops EXCEPT ![i] = IF st[1] = "err" THEN Reject(o, st[2])
                                        ELSE AfterStat([o EXCEPT !.st = st], st)]
          /\ handles' = IF o.kind \in {"fstat", "fexists", "read"}
                        THEN [handles EXCEPT ![o.h] = [@ EXCEPT !.stat = st]]
                        ELSE handles
    /\ UNCHANGED <<backend, base, ticket, fopts, store, links, changes>>

\* The lookup request of a stat is answered (st keeps what it resolved to).
LookupResponse(i) ==
    /\ ops[i].pc = "lookup"
    /\ LET o == ops[i]
           st == IF backend = "alfresco"
                 THEN AlfrescoStat(AlfrescoLookupReply(o.url))
                 ELSE GitlabStat(GitlabHeadReply(o.url))
       IN IF st[1] = "err"
          THEN /\ ops' = [ops EXCEPT ![i] = Reject(o, st[2])]
               /\ handles' = handles
          ELSE /\ ops' = [ops EXCEPT ![i] = AfterStat([o EXCEPT !.st = st], st)]
               /\ handles' = IF o.kind \in {"fstat", "fexists", "read"}
                             THEN [handles EXCEPT ![o.h] = Cache(@, st)]
                             ELSE handles
    /\ UNCHANGED <<backend, base, ticket, fopts, store, links, changes>>

NodeExists(id) == \E k \in StoreKeys : store[k] # Absent /\ store[k].id = id

\* POST /shared-links {nodeId}: a new link, or 409 naming the existing one.
LinkReply(id) ==
    IF ~NodeExists(id)
    THEN [error |-> [statusCode |-> 404, errorKey |-> <<"not", "found">>]]
    ELSE IF id \in links
    THEN [error |-> [statusCode |-> 409,
                     errorKey |-> <<"already", "shared", "[", LinkIdOf(id), "]">>]]
    ELSE [entry |-> [id |-> <<LinkIdOf(id)>>]]

\* presign's continuation on the shared-link reply: the id of the entry, on
\* a 409 the id parsed out of the error key, goes into the download URL.
PresignUrl(o, data) ==
    LET entry ==
          IF "error" \in DOMAIN data /\ data.error.statusCode = 409
          THEN LET m == BracketMatch(data.error.errorKey) IN
               IF m[1] = "null" THEN <<"throw">> ELSE <<"entry", m[2]>>
          ELSE IF "entry" \in DOMAIN data THEN <<"entry", data.entry.id>>
          ELSE <<"throw">>
    IN  IF entry[1] = "throw" THEN Reject(o, "TypeError")
        ELSE Resolve(o, <<"url", [endpoint |-> o.opts.endpoint, link |-> entry[2],
                                  name |-> basename(o.path),
                                  inline |-> Prop(o.opts, "inline") = "true"]>>)

StatusOf(data) == IF "error" \in DOMAIN data THEN data.error.statusCode ELSE 200

LinkResponse(i) ==
    /\ ops[i].pc = "link"
    /\ LET o == ops[i]
           data == LinkReply(o.url[1])
       IN /\ ops' = [ops EXCEPT ![i] = PresignUrl([o EXCEPT !.status = StatusOf(data)], data)]
          /\ links' = IF NodeExists(o.url[1]) THEN links \cup {o.url[1]} ELSE links
    /\ UNCHANGED <<backend, base, ticket, handles, fopts, store, changes>>

\* The size client.write resolves to.  Alfresco: the reply's
\* entry.content.sizeInBytes.  Gitlab: data.size || data.length on a 201.
AlfrescoWritten(data) ==
    IF "entry" \in DOMAIN data THEN <<"num", data.entry.content.sizeInBytes>>
    ELSE <<"undefined">>

GitlabWritten(status, data) ==
    IF status = 201 THEN JsOr(SizeProp(data), LengthProp(data)) ELSE <<"undefined">>

NewNode(key, type, content) ==
    [id |-> NodeIdOf(key), type |-> type, content |-> content, rev |-> 1]

\* The write request is answered: the backend creates the object when the
\* name is free (Gitlab: 201), and refuses otherwise (Alfresco 409, Gitlab 400).
WriteResponse(i) ==
    /\ ops[i].pc = "write"
    /\ LET o == ops[i]
           key == IF backend = "alfresco" THEN o.url[2] ELSE o.url[1]
           free == key \in StoreKeys /\ store[key] = Absent
                   /\ (backend = "alfresco" => o.url[1] = "b")
       IN IF backend = "alfresco"
          THEN LET data == IF free
                           THEN [entry |-> [content |-> [sizeInBytes |-> Len(BlobOf(o.data))]]]
                           ELSE [error |-> [statusCode |-> 409]]
               IN /\ ops' = [ops EXCEPT ![i] =
                                Resolve([o EXCEPT !.status = IF free THEN 201 ELSE 409],
                                        AlfrescoWritten(data))]
                  /\ store' = IF free
                              THEN [store EXCEPT ![key] =
                                      NewNode(key, <<"str", "cm:content">>, BlobOf(o.data))]
                              ELSE store
          ELSE LET status == IF free THEN 201 ELSE 400 IN
               /\ ops' = [ops EXCEPT ![i] =
                            Resolve([o EXCEPT !.status = status], GitlabWritten(status, o.data))]
               /\ store' = IF free
                           THEN [store EXCEPT ![key] =
                                   NewNode(key, <<"str", "file">>, FormValue(o.data))]
                           ELSE store
    /\ UNCHANGED <<backend, base, ticket, handles, fopts, links, changes>>

\* DELETE /nodes/<id> is answered: the node of that id, if any, is gone; the
\* client resolves whatever the answer.
DeleteResponse(i) ==
    /\ ops[i].pc = "delete"
    /\ LET o == ops[i]
           id == o.url[1]
       IN /\ store' = [k \in StoreKeys |->
                          IF store[k] # Absent /\ store[k].id = id THEN Absent ELSE store[k]]
          /\ links' = links \ {id}
          /\ ops' = [ops EXCEPT ![i] =
                        Resolve([o EXCEPT !.status = IF NodeExists(id) THEN 204 ELSE 404],
                                <<"void">>)]
    /\ UNCHANGED <<backend, base, ticket, handles, fopts, changes>>

\* The body a content request is answered with: the object's content, or the
\* backend's error document.
ContentBody(url) ==
    IF backend = "alfresco"
    THEN IF NodeExists(url[1])
         THEN store[CHOOSE k \in StoreKeys : store[k] # Absent /\ store[k].id = url[1]].content
         ELSE <<"E">>
    ELSE IF Exists(url[1]) THEN store[url[1]].content ELSE <<"E">>

\* The content request is answered: start() keeps the body's reader.
ContentResponse(i) ==
    /\ ops[i].pc = "content"
    /\ LET o == ops[i] IN
         ops' = [ops EXCEPT ![i] = [o EXCEPT !.pc = "reading", !.body = ContentBody(o.url),
                                             !.src = ContentBody(o.url)]]
    /\ UNCHANGED <<backend, base, ticket, handles, fopts, store, links, changes>>

\* pull(ctrl) reading the reader twice and enqueuing the second chunk only.
PullSkip(i) ==
    /\ ops[i].pc = "reading"
    /\ LET o == ops[i] IN
         ops' = [ops EXCEPT ![i] =
                    IF o.body = <<>>
                    THEN Resolve([o EXCEPT !.closes = @ + 1], <<"text", o.got>>)
                    ELSE IF Len(o.body) = 1
                    THEN [o EXCEPT !.got = Append(@, Head(o.body)), !.body = Tail(@)]
                    ELSE [o EXCEPT !.got = Append(@, o.body[2]), !.body = Tail(Tail(@))]]
    /\ UNCHANGED <<backend, base, ticket, handles, fopts, store, links, changes>>

\* pull(ctrl): one chunk of the reader is enqueued, or the stream is closed
\* and the read resolves to what was enqueued.
Pull(i) ==
    /\ ops[i].pc = "reading"
    /\ LET o == ops[i] IN
         ops' = [ops EXCEPT ![i] =
                    IF o.body = <<>>
                    THEN Resolve([o EXCEPT !.closes = @ + 1], <<"text", o.got>>)
                    ELSE [o EXCEPT !.got = Append(@, Head(o.body)), !.body = Tail(@)]]
    /\ UNCHANGED <<backend, base, ticket, handles, fopts, store, links, changes>>

\* A third party replaces the content of a remote object.
RemoteChange(p) ==
    /\ changes < MaxChanges
    /\ store[p] # Absent
    /\ store' = [store EXCEPT ![p] = [@ EXCEPT !.content = OtherContent, !.rev = @ + 1]]
    /\ changes' = changes + 1
    /\ UNCHANGED <<backend, base, ticket, handles, fopts, ops, links>>

\* The caller lets go of the operations that have settled.
Forget ==
    /\ ops # <<>>
    /\ \A i \in 1..Len(ops) : Done(ops[i])
    /\ ops' = <<>>
    /\ UNCHANGED <<backend, base, ticket, handles, fopts, store, links, changes>>

\* No operation is pending: the caller awaits each operation before the next.
Idle == ops = <<>>

\* Every operation, called by a caller that awaits each one and writes
\* "Hi"; handles are minted for the object that exists at the start.
HelloWorld == [kind |-> "string", bytes |-> <<"H", "i">>]

Next ==
    \/ \E ov \in Overrides : File("a", ov)
    \/ \E h \in 1..Len(handles), a \in SliceArgs : Slice(h, a)
    \/ \E p \in Paths, ov \in Overrides : Idle /\ ClientStat(p, ov)
    \/ \E p \in Paths, ov \in Overrides : Idle /\ ClientExists(p, ov)
    \/ \E p \in Paths, ov \in Overrides : Idle /\ ClientSize(p, ov)
    \/ \E p \in Paths, ov \in Overrides : Idle /\ ClientPresign(p, ov)
    \/ \E p \in Paths, ov \in Overrides : Idle /\ ClientWrite(p, HelloWorld, ov)
    \/ \E n \in Paths \cup NodeIds, ov \in Overrides : Idle /\ ClientDelete(n, ov)
    \/ \E h \in 1..Len(handles) : Idle /\ FileStat(h)
    \/ \E h \in 1..Len(handles) : Idle /\ FileExists(h)
    \/ \E h \in 1..Len(handles), ov \in Overrides : Idle /\ FilePresign(h, ov)
    \/ \E h \in 1..Len(handles), ov \in Overrides : Idle /\ FileWrite(h, HelloWorld, ov)
    \/ \E h \in 1..Len(handles) : Idle /\ FileDelete(h)
    \/ \E h \in 1..Len(handles) : Idle /\ FileRead(h)
    \/ \E i \in 1..Len(ops), data \in AuthReplies : AuthResponse(i, data)
    \/ \E i \in 1..Len(ops) : TransportFailure(i)
    \/ \E i \in 1..Len(ops) : LookupResponse(i)
    \/ \E i \in 1..Len(ops) : LinkResponse(i)
    \/ \E i \in 1..Len(ops) : WriteResponse(i)
    \/ \E i \in 1..Len(ops) : DeleteResponse(i)
    \/ \E i \in 1..Len(ops) : ContentResponse(i)
    \/ \E i \in 1..Len(ops) : Pull(i)
    \/ Forget

Spec == Init /\ [][Next]_vars

\* ------------------------------------------------------------------ C10
\* C10: no operation of the client or of a handle, whatever options it is
\* given, changes the client's shared base configuration.
C10_BaseUnchanged == [][base' = base]_vars

\* A handle minted with overrides has been sliced and an operation called
\* with overrides has settled, and the base holds none of it.
C10_Witness ==
    /\ \E h \in 1..Len(handles) :
         /\ Prop(OptionsOf(h), "inline") = "true"
         /\ Prop(OptionsOf(h), "sliceStart") = "0"
    /\ \E i \in 1..Len(ops) : Done(ops[i]) /\ Prop(ops[i].opts, "inline") = "true"
    /\ "inline" \notin DOMAIN base

\* ------------------------------------------------------------------- C1
\* Overlapping operations of one Alfresco client on the object that exists:
\* every kind of request, every answer of the authentication endpoint.
NextAuth ==
    \/ File("a", UNDEF)
    \/ ClientStat("a", UNDEF)
    \/ ClientExists("a", UNDEF)
    \/ ClientSize("a", UNDEF)
    \/ ClientPresign("a", UNDEF)
    \/ ClientWrite("b", HelloWorld, UNDEF)
    \/ ClientDelete("a", UNDEF)
    \/ \E h \in 1..Len(handles) : FileStat(h)
    \/ \E h \in 1..Len(handles) : FileRead(h)
    \/ \E i \in 1..Len(ops), data \in AuthReplies : AuthResponse(i, data)
    \/ \E i \in 1..Len(ops) : TransportFailure(i)
    \/ \E i \in 1..Len(ops) : LookupResponse(i)
    \/ \E i \in 1..Len(ops) : LinkResponse(i)
    \/ \E i \in 1..Len(ops) : WriteResponse(i)
    \/ \E i \in 1..Len(ops) : DeleteResponse(i)
    \/ \E i \in 1..Len(ops) : ContentResponse(i)
    \/ \E i \in 1..Len(ops) : Pull(i)

InitAlfresco == Init /\ backend = "alfresco" /\ "bucket" \in DOMAIN base

SpecAuth == InitAlfresco /\ [][NextAuth]_vars

\* The authentication POSTs issued so far, as (operation, position).
AuthPosts ==
    UNION {{<<i, k>> : k \in {n \in DOMAIN ops[i].reqs : ops[i].reqs[n] = "auth"}} :
           i \in 1..Len(ops)}

\* C1: at most one POST to the authentication-ticket endpoint is ever issued
\* by a client and its handles, under any interleaving of their operations.
C1_AtMostOneTicketPost == Cardinality(AuthPosts) <= 1

\* -------------------------------------------------------------- C2, C6
\* Overlapping stat and exists calls on handles, while a third party changes
\* the object.
NextStat ==
    \/ \E p \in Paths : File(p, UNDEF)
    \/ \E h \in 1..Len(handles) : FileStat(h)
    \/ \E h \in 1..Len(handles) : FileExists(h)
    \/ \E i \in 1..Len(ops), data \in AuthReplies : AuthResponse(i, data)
    \/ \E i \in 1..Len(ops) : TransportFailure(i)
    \/ \E i \in 1..Len(ops) : LookupResponse(i)
    \/ RemoteChange("a")

SpecStat == Init /\ [][NextStat]_vars

\* C2: any two stat() calls on the same handle resolve to the identical
\* metadata, even if the remote object changes between them.
C2_StatIdentical ==
    \A i, j \in 1..Len(ops) :
        ( /\ ops[i].kind = "fstat" /\ ops[j].kind = "fstat"
          /\ ops[i].h = ops[j].h
          /\ ops[i].pc = "resolved" /\ ops[j].pc = "resolved" )
        => ops[i].res = ops[j].res

\* C6: when stat() on a handle has resolved, the exists() called next on
\* that handle returns true iff the resolved metadata has a non-empty type.
C6_ExistsIffType ==
    \A j \in 2..Len(ops) :
        LET i == j - 1 IN
        ( /\ ops[i].kind = "fstat" /\ ops[i].pc = "resolved"
          /\ ops[j].kind = "fexists" /\ ops[j].h = ops[i].h
          /\ i \in ops[j].after
          /\ ops[j].pc = "resolved" )
        => ops[j].res = <<"bool", Truthy(PropT(ops[i].res[2], "type"))>>

\* ------------------------------------------------------------------- C3
\* Deletes, by the client and by handles, and exists on handles, with a
\* bucket configured and every request answered.
AuthGranted == {[entry |-> [id |-> id]] : id \in AuthIds}
InitBucket == Init /\ "bucket" \in DOMAIN base

NextDelete ==
    \/ File("a", UNDEF)
    \/ \E n \in {"a", NodeIdOf("a")} : ClientDelete(n, UNDEF)
    \/ \E h \in 1..Len(handles) : FileDelete(h)
    \/ \E h \in 1..Len(handles) : FileExists(h)
    \/ \E i \in 1..Len(ops), data \in AuthGranted : AuthResponse(i, data)
    \/ \E i \in 1..Len(ops) : LookupResponse(i)
    \/ \E i \in 1..Len(ops) : DeleteResponse(i)

SpecDelete == InitBucket /\ [][NextDelete]_vars

\* Operation j is the first one on its handle, a handle made by client.file.
Fresh(j) ==
    /\ ops[j].h # 0
    /\ handles[ops[j].h].path[1] = "str"
    /\ \A k \in 1..Len(ops) : (k # j /\ ops[k].h = ops[j].h) => k > j

\* C3: after a delete of an existing object has completed, exists() on a
\* fresh handle for the same path resolves to false.
C3_DeleteThenExistsFalse ==
    \A i, j \in 1..Len(ops) :
        ( /\ ops[i].kind \in {"delete", "fdelete"}
          /\ ops[i].pc = "resolved" /\ ops[i].had
          /\ ops[j].kind = "fexists" /\ ops[j].path = ops[i].path
          /\ i \in ops[j].after /\ Fresh(j)
          /\ Done(ops[j]) )
        => ops[j].res = <<"bool", FALSE>>

\* -------------------------------------------------------------- C4, C9
\* Writes of every payload kind and reads, with a bucket configured and
\* every request answered.

NextWrite ==
    \/ \E p \in Paths : File(p, UNDEF)
    \/ \E h \in 1..Len(handles), d \in Payloads : FileWrite(h, d, UNDEF)
    \/ \E p \in Paths, d \in Payloads : ClientWrite(p, d, UNDEF)
    \/ \E h \in 1..Len(handles) : FileRead(h)
    \/ \E i \in 1..Len(ops), data \in AuthGranted : AuthResponse(i, data)
    \/ \E i \in 1..Len(ops) : LookupResponse(i)
    \/ \E i \in 1..Len(ops) : WriteResponse(i)
    \/ \E i \in 1..Len(ops) : ContentResponse(i)
    \/ \E i \in 1..Len(ops) : Pull(i)

SpecWrite == InitBucket /\ [][NextWrite]_vars

\* C4: writing P through a handle to a path not yet present and then
\* reading the path as text through a fresh handle returns exactly P.
C4_WriteReadRoundTrip ==
    \A i, j \in 1..Len(ops) :
        ( /\ ops[i].kind = "fwrite" /\ Done(ops[i]) /\ ~ops[i].had
          /\ \A k \in 1..Len(ops) :
                (ops[k].kind \in {"write", "fwrite"} /\ ops[k].path = ops[i].path) => k = i
          /\ ops[j].kind = "read" /\ ops[j].path = ops[i].path
          /\ i \in ops[j].after /\ Fresh(j)
          /\ Done(ops[j]) )
        => ops[j].res = <<"text", ops[i].data.bytes>>

\* C9: a Gitlab write resolves to the size of the payload when the backend
\* answers 201, whatever the payload's kind, and to undefined otherwise.
C9_GitlabWriteSize ==
    \A i \in 1..Len(ops) :
        ( /\ backend = "gitlab"
          /\ ops[i].kind \in {"write", "fwrite"}
          /\ Done(ops[i]) )
        => /\ ops[i].pc = "resolved"
           /\ ops[i].res = IF ops[i].status = 201
                           THEN <<"num", ByteSize(ops[i].data)>>
                           ELSE <<"undefined">>

\* ------------------------------------------------------------------- C5
\* client.exists with every path and option set.
NextExists ==
    \/ \E p \in Paths, ov \in Overrides : ClientExists(p, ov)
    \/ \E i \in 1..Len(ops), data \in AuthReplies : AuthResponse(i, data)
    \/ \E i \in 1..Len(ops) : TransportFailure(i)
    \/ \E i \in 1..Len(ops) : LookupResponse(i)

SpecExists == Init /\ [][NextExists]_vars

\* C5: client.exists never fails: it resolves to a boolean, false on every
\* failure of the underlying stat, true exactly when stat gave a truthy type.
C5_ExistsNeverFails ==
    \A i \in 1..Len(ops) :
        (ops[i].kind = "exists" /\ ops[i].pc \notin InFlight)
        => /\ ops[i].pc = "resolved"
           /\ ops[i].res = <<"bool", ops[i].st[1] = "stat"
                                      /\ Truthy(PropT(ops[i].st[2], "type"))>>

\* -------------------------------------------------------------- C7, C8
\* Overlapping presign calls of an Alfresco client and its handles, while
\* the node may be deleted by its id; every answer of the backend.
NextPresign ==
    \/ File("a", UNDEF)
    \/ \E p \in Paths : ClientPresign(p, UNDEF)
    \/ \E h \in 1..Len(handles) : FilePresign(h, "inline")
    \/ ClientDelete(NodeIdOf("a"), UNDEF)
    \/ \E i \in 1..Len(ops), data \in AuthReplies : AuthResponse(i, data)
    \/ \E i \in 1..Len(ops) : TransportFailure(i)
    \/ \E i \in 1..Len(ops) : LookupResponse(i)
    \/ \E i \in 1..Len(ops) : LinkResponse(i)
    \/ \E i \in 1..Len(ops) : DeleteResponse(i)

InitPresign == InitBucket /\ backend = "alfresco"

SpecPresign == InitPresign /\ [][NextPresign]_vars

PresignKinds == {"presign", "fpresign"}
NotAuth(x) == x # "auth"

\* The requests of an operation other than its authentication calls.
BackendRequests(o) == SelectSeq(o.reqs, NotAuth)

\* C7: an Alfresco presign sends one lookup and then one shared-link request
\* and nothing else; the link request only once the stat has succeeded.
C7_PresignRequests ==
    \A i \in 1..Len(ops) :
        ops[i].kind \in PresignKinds =>
            LET r == BackendRequests(ops[i]) IN
            /\ r \in {<<>>, <<"lookup">>, <<"lookup", "link">>}
            /\ ops[i].pc = "resolved" => r = <<"lookup", "link">>
            /\ Len(r) = 2 => ops[i].st[1] = "stat"

\* A presign has resolved after its lookup and its link request.
C7_Witness ==
    \E i \in 1..Len(ops) :
        /\ ops[i].kind \in PresignKinds /\ ops[i].pc = "resolved"
        /\ ops[i].reqs = <<"auth", "lookup", "link">>

\* C8: a presign whose link request is answered 409 resolves to the URL of
\* the existing link, so presigns of one node all refer to the same link.
C8_ConflictReusesLink ==
    /\ \A i \in 1..Len(ops) :
         (ops[i].kind \in PresignKinds /\ ops[i].status = 409)
         => /\ ops[i].pc = "resolved"
            /\ ops[i].res[1] = "url"
            /\ ops[i].res[2].link = <<LinkIdOf(ops[i].url[1])>>
    /\ \A i, j \in 1..Len(ops) :
         ( /\ ops[i].kind \in PresignKinds /\ ops[j].kind \in PresignKinds
           /\ ops[i].pc = "resolved" /\ ops[j].pc = "resolved"
           /\ ops[i].url = ops[j].url )
         => ops[i].res[2].link = ops[j].res[2].link

\* A second presign of the object, called after the first resolved, was
\* answered 409 and has resolved.
C8_Witness ==
    \E i, j \in 1..Len(ops) :
        /\ ops[i].kind \in PresignKinds /\ ops[j].kind \in PresignKinds
        /\ i \in ops[j].after /\ ops[i].path = ops[j].path
        /\ ops[i].pc = "resolved" /\ ops[i].status = 200
        /\ ops[j].pc = "resolved" /\ ops[j].status = 409

\* ------------------------------------------------------------------ C11
\* Overlapping operations of an Alfresco client and its handles that need
\* the ticket, with every answer of the authentication endpoint.
NextTicket ==
    \/ File("a", UNDEF)
    \/ ClientStat("a", UNDEF)
    \/ ClientExists("a", UNDEF)
    \/ ClientPresign("a", UNDEF)
    \/ \E h \in 1..Len(handles) : FileStat(h)
    \/ \E i \in 1..Len(ops), data \in AuthReplies : AuthResponse(i, data)
    \/ \E i \in 1..Len(ops) : TransportFailure(i)
    \/ \E i \in 1..Len(ops) : LookupResponse(i)
    \/ \E i \in 1..Len(ops) : LinkResponse(i)

SpecTicket == InitAlfresco /\ [][NextTicket]_vars

\* The state of the shared ticket slot.
Slot ==
    IF Truthy(ticket) THEN "TICKET_CACHED"
    ELSE IF \E i \in 1..Len(ops) : ops[i].pc = "auth" THEN "TICKET_REQUESTED"
    ELSE "NO_TICKET"

\* The requests operation i sends in this step, as positions of its reqs.
NewRequests(i) ==
    (IF i <= Len(ops) THEN Len(ops[i].reqs) ELSE 0) + 1 .. Len(ops'[i].reqs)

\* Operation i was waiting for its own authentication call before this step.
Waiting(i) == i <= Len(ops) /\ ops[i].pc = "auth"

NextRead ==
    \/ \E p \in Paths : File(p, UNDEF)
    \/ \E h \in 1..Len(handles) : FileStat(h)
    \/ \E h \in 1..Len(handles) : FileRead(h)
    \/ \E i \in 1..Len(ops), data \in AuthReplies : AuthResponse(i, data)
    \/ \E i \in 1..Len(ops) : LookupResponse(i)
    \/ \E i \in 1..Len(ops) : ContentResponse(i)
    \/ \E i \in 1..Len(ops) : Pull(i)

\* A client with a bucket, the object at "a" a document.
InitRead == InitBucket /\ store["a"].type = <<"str", "cm:content">>

SpecRead == InitRead /\ [][NextRead]_vars

IsContent(x) == x = "content"

\* The content requests of an operation.
ContentRequests(o) == SelectSeq(o.reqs, IsContent)

\* C12 as stated: a read opens exactly one network request, on both
\* backends, whether or not the handle's metadata was resolved before.
C12_OneRequestPerRead ==
    \A i \in 1..Len(ops) :
        ops[i].kind = "read" =>
            /\ Len(ops[i].reqs) <= 1
            /\ ops[i].pc \in {"content", "reading", "resolved"} => Len(ops[i].reqs) = 1

\* C12 as amended: a read opens at most one content request, exactly one
\* when it delivers data.  On Gitlab, and on an Alfresco handle that holds
\* metadata, that is its only request; an Alfresco handle without metadata
\* first sends one lookup (after an authentication call if there is no
\* ticket) and sends the content request only if the lookup succeeds.
C12_OneContentRequestPerRead ==
    \A i \in 1..Len(ops) :
        ops[i].kind = "read" =>
            LET o == ops[i] IN
            /\ Len(ContentRequests(o)) <= 1
            /\ o.pc \in {"content", "reading", "resolved"} => Len(ContentRequests(o)) = 1
            /\ (backend = "gitlab" \/ o.cached) => o.reqs = <<"content">>
            /\ (backend = "alfresco" /\ ~o.cached) =>
                    /\ BackendRequests(o) \in {<<>>, <<"lookup">>, <<"lookup", "content">>}
                    /\ Len(BackendRequests(o)) = 2 <=> (o.st[1] = "stat")
                    /\ Len(o.reqs) <= Len(BackendRequests(o)) + 1

\* Reads have delivered data on an Alfresco handle that held metadata and
\* on one that did not.
C12_Witness ==
    /\ backend = "alfresco"
    /\ \E i, j \in 1..Len(ops) :
         /\ ops[i].kind = "read" /\ ops[i].pc = "resolved" /\ ~ops[i].cached
         /\ ops[i].reqs = <<"auth", "lookup", "content">>
         /\ ops[j].kind = "read" /\ ops[j].pc = "resolved" /\ ops[j].cached

\* C13: an Alfresco content request never goes out with an unresolved
\* identifier: a read on a handle that does not know it performs a stat
\* first, the content request follows that stat's success and carries the
\* identifier it gave, and a read whose stat fails sends none and fails.
C13_ContentAfterStat ==
    \A i \in 1..Len(ops) :
        (backend = "alfresco" /\ ops[i].kind = "read") =>
            LET o == ops[i] IN
            /\ ContentRequests(o) # <<>> =>
                    /\ o.url[1] # UNDEF
                    /\ o.url[1] = handles[o.h].id
                    /\ ~o.cached =>
                          /\ o.st[1] = "stat" /\ o.url = <<o.st[2].id>>
                          /\ BackendRequests(o) = <<"lookup", "content">>
            /\ (~o.cached /\ Done(o) /\ o.st[1] # "stat") =>
                    /\ ContentRequests(o) = <<>>
                    /\ o.pc \in {"rejected"}

\* A read on a handle without metadata has sent its content request after
\* its stat, with the identifier the stat gave, and another has failed at
\* its stat.
C13_Witness ==
    /\ backend = "alfresco"
    /\ \E i, j \in 1..Len(ops) :
         /\ ops[i].kind = "read" /\ ~ops[i].cached
         /\ BackendRequests(ops[i]) = <<"lookup", "content">>
         /\ ops[i].url = <<NodeIdOf("a")>>
         /\ ops[j].kind = "read" /\ ~ops[j].cached /\ ops[j].pc = "rejected"
         /\ BackendRequests(ops[j]) = <<"lookup">>

\* ------------------------------------------------------------------ C14
\* Reads, one after the other, of an object a third party may replace and
\* of a path that names none, every request answered.
NextStream ==
    \/ \E p \in Paths : File(p, UNDEF)
    \/ \E h \in 1..Len(handles) : Idle /\ FileRead(h)
    \/ \E i \in 1..Len(ops), data \in AuthGranted : AuthResponse(i, data)
    \/ \E i \in 1..Len(ops) : LookupResponse(i)
    \/ \E i \in 1..Len(ops) : ContentResponse(i)
    \/ \E i \in 1..Len(ops) : Pull(i)
    \/ RemoteChange("a")
    \/ Forget

\* A consumer that reads to the end pulls as long as the stream is open.
SpecStream ==
    InitRead /\ [][NextStream]_vars /\ WF_vars(\E i \in 1..Len(ops) : Pull(i))

Streaming(i) == i <= Len(ops) /\ ops[i].pc = "reading"
Closed(i) == i <= Len(ops) /\ ops[i].pc = "resolved"

\* What was delivered followed by what is left is the body, and the stream
\* is closed once, with everything delivered.
Delivered ==
    \A i \in 1..Len(ops) :
        ops[i].pc \in {"reading", "resolved"} =>
            /\ ops[i].got \o ops[i].body = ops[i].src
            /\ ops[i].closes = IF ops[i].pc = "resolved" THEN 1 ELSE 0
            /\ ops[i].pc = "resolved" => ops[i].got = ops[i].src

\* A step delivers at most one chunk of a stream.
OneChunkPerPull ==
    \A i \in 1..Len(ops) :
        i <= Len(ops') => Len(ops'[i].got) <= Len(ops[i].got) + 1

\* C14: the stream forwards one chunk per pull, delivers the chunks of the
\* body in order with none lost or duplicated, closes once and only after
\* the last chunk, and a read that is consumed to the end terminates.
C14_StreamDelivers ==
    /\ []Delivered
    /\ [][OneChunkPerPull]_vars
    /\ \A i \in 1..MaxOps : Streaming(i) ~> Closed(i)

\* The read of a three-chunk body has delivered the three chunks in order
\* and closed the stream.
C14_Witness ==
    \E i \in 1..Len(ops) :
        /\ ops[i].kind = "read" /\ ops[i].pc = "resolved"
        /\ ops[i].src = OtherContent /\ ops[i].got = OtherContent
        /\ ops[i].closes = 1

\* ------------------------------------------------------------------ C15
\* Handles, their slices, and stat, exists, presign and reads on them, with
\* a bucket configured and every request answered.
NextSlice ==
    \/ \E p \in Paths : File(p, UNDEF)
    \/ \E h \in 1..Len(handles), a \in SliceArgs : Slice(h, a)
    \/ \E h \in 1..Len(handles) : FileStat(h)
    \/ \E h \in 1..Len(handles) : FileExists(h)
    \/ \E h \in 1..Len(handles) : FilePresign(h, UNDEF)
    \/ \E h \in 1..Len(handles) : FileRead(h)
    \/ \E i \in 1..Len(ops), data \in AuthGranted : AuthResponse(i, data)
    \/ \E i \in 1..Len(ops) : LookupResponse(i)
    \/ \E i \in 1..Len(ops) : LinkResponse(i)
    \/ \E i \in 1..Len(ops) : ContentResponse(i)
    \/ \E i \in 1..Len(ops) : Pull(i)

SpecSlice == InitRead /\ [][NextSlice]_vars

\* The path of the handle a slice was taken from, through slices of slices.
RECURSIVE RootPath(_)
RootPath(h) ==
    IF handles[h].path[1] = "str" THEN handles[h].path[2]
    ELSE RootPath(handles[h].path[2])

\* The name of the remote object a request by path addresses.
Addressed(o) == IF backend = "alfresco" THEN o.url[2] ELSE o.url[1]

ByPath(o) == o.pc = "lookup" \/ (backend = "gitlab" /\ o.pc = "content")

\* C15: the handle slice returns wraps the path of the original: stat,
\* exists, presign and reads on it address the original's remote object.
C15_SliceSamePath ==
    \A i \in 1..Len(ops) :
        (ops[i].h # 0 /\ handles[ops[i].h].path[1] = "file") =>
            /\ ByPath(ops[i]) => Addressed(ops[i]) = RootPath(ops[i].h)
            /\ ops[i].res # <<"err", "TypeError">>
            /\ (ops[i].pc = "resolved" /\ ops[i].res[1] = "url")
                    => ops[i].res[2].name = RootPath(ops[i].h)

\* ------------------------------------------------------------------ C16
\* Overlapping stat calls on handles of an Alfresco client, for a path that
\* names an object and one that does not, with every answer of the
\* authentication endpoint and failures in transport.
NextRetry ==
    \/ \E p \in Paths : File(p, UNDEF)
    \/ \E h \in 1..Len(handles) : FileStat(h)
    \/ \E i \in 1..Len(ops), data \in AuthReplies : AuthResponse(i, data)
    \/ \E i \in 1..Len(ops) : TransportFailure(i)
    \/ \E i \in 1..Len(ops) : LookupResponse(i)

InitRetry == InitRead /\ backend = "alfresco"

SpecRetry == InitRetry /\ [][NextRetry]_vars

\* The stat calls on handle h that have failed at a request: rejected with
\* the backend's error summary, in transport, or at authentication.
FailedStats(h) ==
    {i \in 1..Len(ops) : /\ ops[i].kind = "fstat" /\ ops[i].h = h
                         /\ ops[i].pc = "rejected" /\ ops[i].reqs # <<>>}

\* The operations on handle h whose lookup has succeeded.
SucceededLookups(h) ==
    {i \in 1..Len(ops) : ops[i].h = h /\ ops[i].st[1] = "stat"}

\* C16: a stat() on an Alfresco handle that fails leaves the handle's cached
\* metadata and identifier unpopulated, so a later stat() on the handle sends
\* a new lookup and can succeed; only a successful stat populates the cache.
C16_FailedStatCachesNothing ==
    backend = "alfresco" =>
        /\ \A h \in 1..Len(handles) :
              /\ SucceededLookups(h) = {} =>
                    (handles[h].stat = <<"undefined">> /\ handles[h].id = UNDEF)
              /\ Truthy(handles[h].stat) =>
                    (handles[h].stat[1] = "stat" /\ handles[h].id = handles[h].stat[2].id)
        /\ \A i, j \in 1..Len(ops) :
              ( /\ ops[j].kind = "fstat" /\ i \in FailedStats(ops[j].h)
                /\ i \in ops[j].after /\ SucceededLookups(ops[j].h) \subseteq {j} )
              => /\ ~ops[j].cached
                 /\ ops[j].reqs # <<>>
                 /\ ops[j].pc \in {"resolved", "lookup"} => ops[j].reqs[Len(ops[j].reqs)] = "lookup"

\* A stat on a handle failed, and the stat called on it afterwards sent its
\* own lookup, resolved, and filled the cache.
C16_Witness ==
    /\ backend = "alfresco"
    /\ \E i, j \in 1..Len(ops) :
         /\ i \in FailedStats(ops[j].h) /\ i \in ops[j].after
         /\ ops[j].kind = "fstat" /\ ops[j].pc = "resolved"
         /\ ops[j].reqs[Len(ops[j].reqs)] = "lookup"
         /\ handles[ops[j].h].stat = ops[j].res

\* ------------------------------------------------------------------ C17
\* The authentication call of operation i has failed: the operation settled
\* while that call was its last request.
AuthFailed(i) ==
    /\ Done(ops[i]) /\ ops[i].reqs # <<>>
    /\ ops[i].reqs[Len(ops[i].reqs)] = "auth"

\* The slot is written only by an operation whose authentication call was
\* answered with an entry id, with the value made of that id.
SlotWrittenOnSuccess ==
    ticket' # ticket =>
        \E i \in 1..Len(ops), id \in AuthIds :
            /\ ops[i].pc = "auth" /\ ops'[i].pc = ops[i].next
            /\ ticket' = <<"str", btoa(id)>>

\* While the slot is empty, a request that needs the ticket begins with an
\* authentication call of its own.
FreshAuthCall ==
    ~Truthy(ticket) =>
        \A i \in 1..Len(ops') :
            (~Waiting(i) /\ NewRequests(i) # {}) =>
                ops'[i].reqs[Len(ops'[i].reqs)] = "auth"

\* A failed authentication call leaves the slot as it was.
FailureKeepsSlot ==
    \A i \in 1..Len(ops) :
        (ops[i].pc = "auth" /\ Done(ops'[i])) => ticket' = ticket

====
